---- MODULE Spec2Model ----
(***************************************************************************)
(* A model of utils.py: download_file, unzip_file, extract_from_location   *)
(* and download_and_extract, as one sequential call that runs from "idle"  *)
(* to "returned" or "raised".  The HTTP server, the zip library and the    *)
(* file system are the environment: every answer they can give is a        *)
(* nondeterministic choice at the statement that asks for it.              *)
(***************************************************************************)
EXTENDS Integers, Sequences, FiniteSets, TLC

(***************************************************************************)
(* Bounds of the model.                                                    *)
(***************************************************************************)
MaxUrlLen == 2      \* longest URL, in characters
MaxBody == 2        \* most bytes a server delivers in one response
MaxChunk == 2       \* longest chunk iter_content yields (chunk_size, scaled)
MaxTotal == 3       \* largest content-length a server reports

(***************************************************************************)
(* Program constants.                                                      *)
(***************************************************************************)
BarWidth == 50
PercentScale == 100

(***************************************************************************)
(* Values.                                                                 *)
(***************************************************************************)
\* Python's None, as a value comparable with the strings (sequences of
\* one-character strings) of the model.
None == <<"None">>

Chars == {"/", "a"}
Bytes == {0, 1}

SeqsUpTo(S, n) == UNION {[1..k -> S] : k \in 0..n}

Urls == SeqsUpTo(Chars, MaxUrlLen)
\* The filename argument: omitted, or a name the caller supplies.
FilenameArgs == {None, <<"f">>}
\* Archive paths: "f" may exist on disk, "z" never does.
ZipPaths == {<<"z">>, <<"f">>}
Dirs == {<<".">>, <<"o">>}
\* What an existing file held before the call.
Old == <<7>>
\* The entries of an archive, in the order extractall writes them.
Entries == <<"a.txt", "sub/b.txt">>
\* Final status codes a server answers with (redirects already followed).
Statuses == {200, 300, 404, 500}
\* The content-length header: absent, an integer, or not a number.
Headers == {[kind |-> "absent", val |-> 0], [kind |-> "garbage", val |-> 0]}
             \cup {[kind |-> "int", val |-> n] : n \in -1..MaxTotal}
Chunks == SeqsUpTo(Bytes, MaxChunk) \ {<<>>}
Bodies == SeqsUpTo(Bytes, MaxBody)

NoExc == [kind |-> "none", origin |-> "none"]
NoResponse == [status |-> 0, header |-> [kind |-> "absent", val |-> 0]]
NoBar == [fill |-> 0, blank |-> 0, shown |-> FALSE]
NoOrch == [url |-> None, filename |-> None, zip_path |-> None, extract_to |-> None,
           cleanup |-> FALSE, show_progress |-> FALSE,
           downloaded_file |-> None, extract_dir |-> None]
NoFiles == [p \in {} |-> <<>>]
NoOutcome == [kind |-> "none", exc |-> "none", value |-> <<>>]

VARIABLES
  pc,             \* the statement about to run
  fn,             \* the public function the caller invoked
  url,            \* download_file's url
  filename,       \* download_file's filename (None until derived)
  show_progress,  \* download_file's show_progress
  response,       \* the response of requests.get
  total_size,     \* download_file's total_size
  downloaded,     \* download_file's downloaded
  done,           \* download_file's done
  percent,        \* download_file's percent
  bar,            \* the progress line on the terminal
  handle,         \* the file object f: "none", "open", "closed"
  body,           \* the bytes the server has delivered so far
  zip_path,       \* unzip_file's zip_path
  extract_to,     \* unzip_file's extract_to
  zip_ref,        \* the ZipFile object: "none", "open", "closed"
  orch,           \* the frame of extract_from_location / download_and_extract
  fs,             \* the regular files on disk: path -> contents
  dest,           \* the entries extracted into the destination directory
  out,            \* the lines printed to standard output
  exc,            \* the exception in flight
  outcome,        \* what the caller got back
  calls,          \* the stages invoked so far, in order
  fs0             \* the files on disk when the call was made

vars == <<pc, fn, url, filename, show_progress, response, total_size, downloaded,
          done, percent, bar, handle, body, zip_path, extract_to, zip_ref, orch,
          fs, dest, out, exc, outcome, calls, fs0>>

dfFrame == <<url, filename, show_progress>>
dfLocals == <<response, total_size, downloaded, done, percent, body>>
uzFrame == <<zip_path, extract_to>>
world == <<fs, dest, fs0>>

(***************************************************************************)
(* Pure helpers.                                                           *)
(***************************************************************************)
\* str.split('/'): the list of the segments between the separators.
RECURSIVE Split(_, _, _)
Split(s, cur, acc) ==
  IF s = <<>> THEN Append(acc, cur)
  ELSE IF Head(s) = "/" THEN Split(Tail(s), <<>>, Append(acc, cur))
  ELSE Split(Tail(s), Append(cur, Head(s)), acc)

\* DeriveFilename with the first segment taken: url.split('/')[0]
DeriveFilenameFirst(u) ==
  LET parts == Split(u, <<>>, <<>>) IN parts[1]

\* url.split('/')[-1]
DeriveFilename(u) ==
  LET parts == Split(u, <<>>, <<>>) IN parts[Len(parts)]

\* int(a / b) for a >= 0 and b # 0: true division, truncated toward zero.
\* (The quotient of two integers of this size is exact in a double up to
\* rounding that never crosses an integer.)
IntTrueDiv(a, b) == IF b > 0 THEN a \div b ELSE -(a \div (-b))

\* ComputeDone with round() in place of int().
ComputeDoneRounded(d, t) ==
  IF t > 0 THEN (2 * BarWidth * d + t) \div (2 * t) ELSE IntTrueDiv(BarWidth * d, t)

\* int(50 * downloaded / total_size)
ComputeDone(d, t) == IntTrueDiv(BarWidth * d, t)
\* int(100 * downloaded / total_size)
ComputePercent(d, t) == IntTrueDiv(PercentScale * d, t)

\* len(c * n) for a one-character string c: '' when n <= 0.
RepeatLen(n) == IF n > 0 THEN n ELSE 0

\* '=' * done + ' ' * (50 - done)
RenderBar(dn) == [fill |-> RepeatLen(dn), blank |-> RepeatLen(BarWidth - dn), shown |-> TRUE]

\* RaisesForStatus with only the server errors raising.
RaisesForServerError(s) == 500 <= s /\ s < 600

\* response.raise_for_status(): raises HTTPError for 4xx and 5xx.
RaisesForStatus(s) == 400 <= s /\ s < 600

\* except requests.exceptions.RequestException
IsRequestException(k) == k \in {"HTTPError", "ConnectionError"}
\* except zipfile.BadZipFile
IsBadZipFile(k) == k = "BadZipFile"

Exists(p) == p \in DOMAIN fs
WriteFile(p, c) == [q \in DOMAIN fs \cup {p} |-> IF q = p THEN c ELSE fs[q]]
RemoveFile(p) == [q \in DOMAIN fs \ {p} |-> fs[q]]

Line(by, msg) == [by |-> by, msg |-> msg]

(***************************************************************************)
(* Initial state: nothing called yet; the disk holds at most one file.     *)
(***************************************************************************)
Init ==
  /\ pc = "idle"
  /\ fn = "none"
  /\ url = None /\ filename = None /\ show_progress = FALSE
  /\ response = NoResponse
  /\ total_size = 0 /\ downloaded = 0 /\ done = 0 /\ percent = 0
  /\ bar = NoBar
  /\ handle = "none"
  /\ body = <<>>
  /\ zip_path = None /\ extract_to = None
  /\ zip_ref = "none"
  /\ orch = NoOrch
  /\ fs \in {NoFiles} \cup {(p :> Old) : p \in {<<"a">>, <<"f">>}}
  /\ fs0 = fs
  /\ dest = {}
  /\ out = <<>>
  /\ exc = NoExc
  /\ outcome = NoOutcome
  /\ calls = <<>>

(***************************************************************************)
(* Control transfer.                                                       *)
(***************************************************************************)
\* Unwind with the orchestrators' except clauses swallowing the exception
\* and carrying on with the next statement (except: pass).
UnwindResume(callee) ==
  IF fn = callee THEN "raised"
  ELSE IF fn = "extract_from_location" THEN "efl_cleanup"
  ELSE IF callee = "download_file" THEN "dae_unzip"
  ELSE "dae_cleanup"

\* Where an exception that leaves `callee` lands: in the caller's except
\* clause, or with the caller of the public function.
Unwind(callee) ==
  IF fn = callee THEN "raised"
  ELSE IF fn = "extract_from_location" THEN "efl_except"
  ELSE "dae_except"

\* Where an exception of kind k raised inside download_file's try block
\* goes: to its except clause if that matches, else out of the function.
DfCatch(k) == IF IsRequestException(k) THEN "df_except" ELSE Unwind("download_file")

\* The same for unzip_file's try block.
UzCatch(k) == IF IsBadZipFile(k) THEN "uz_except" ELSE Unwind("unzip_file")

\* raise: the exception k, raised in function origin, continues at target.
Raise(k, origin, target) ==
  /\ exc' = [kind |-> k, origin |-> origin]
  /\ pc' = target
  /\ outcome' = IF target = "raised"
                THEN [kind |-> "raised", exc |-> k, value |-> <<>>]
                ELSE outcome

\* return value to the caller of the public function.
Return(value) ==
  /\ pc' = "returned"
  /\ outcome' = [kind |-> "returned", exc |-> "none", value |-> value]

\* download_file's frame is gone once control has left it.
PopDfLocals ==
  /\ response' = NoResponse
  /\ total_size' = 0 /\ downloaded' = 0 /\ done' = 0 /\ percent' = 0
  /\ body' = <<>>

(***************************************************************************)
(* The caller invokes one public function.                                 *)
(***************************************************************************)
CallDownloadFile ==
  /\ pc = "idle"
  /\ \E u \in Urls, f \in FilenameArgs, sp \in BOOLEAN :
       /\ url' = u /\ filename' = f /\ show_progress' = sp
  /\ fn' = "download_file"
  /\ calls' = Append(calls, "download_file")
  /\ pc' = "df_name"
  /\ UNCHANGED <<dfLocals, bar, handle, uzFrame, zip_ref, orch, world, out, exc, outcome>>

CallUnzipFile ==
  /\ pc = "idle"
  /\ \E z \in ZipPaths, d \in Dirs : zip_path' = z /\ extract_to' = d
  /\ fn' = "unzip_file"
  /\ calls' = Append(calls, "unzip_file")
  /\ pc' = "uz_exists"
  /\ UNCHANGED <<dfFrame, dfLocals, bar, handle, zip_ref, orch, world, out, exc, outcome>>

CallExtractFromLocation ==
  /\ pc = "idle"
  /\ \E z \in ZipPaths, d \in Dirs, c \in BOOLEAN :
       orch' = [orch EXCEPT !.zip_path = z, !.extract_to = d, !.cleanup = c]
  /\ fn' = "extract_from_location"
  /\ pc' = "efl_unzip"
  /\ UNCHANGED <<dfFrame, dfLocals, bar, handle, uzFrame, zip_ref, world, out, exc,
                 outcome, calls>>

CallDownloadAndExtract ==
  /\ pc = "idle"
  /\ \E u \in Urls, f \in FilenameArgs, d \in Dirs, c \in BOOLEAN, sp \in BOOLEAN :
       orch' = [orch EXCEPT !.url = u, !.filename = f, !.extract_to = d,
                            !.cleanup = c, !.show_progress = sp]
  /\ fn' = "download_and_extract"
  /\ pc' = "dae_download"
  /\ UNCHANGED <<dfFrame, dfLocals, bar, handle, uzFrame, zip_ref, world, out, exc,
                 outcome, calls>>

(***************************************************************************)
(* download_file                                                           *)
(***************************************************************************)
\* lines 26-29: derive the filename, print the banner.
DfName ==
  /\ pc = "df_name"
  /\ filename' = IF filename = None THEN DeriveFilename(url) ELSE filename
  /\ out' = Append(out, Line("download_file", "Downloading"))
  /\ pc' = "df_get"
  /\ UNCHANGED <<fn, url, show_progress, dfLocals, bar, handle, uzFrame, zip_ref, orch,
                 world, exc, outcome, calls>>

\* line 32: requests.get answers with a response, or the connection fails.
DfGet ==
  /\ pc = "df_get"
  /\ \/ /\ \E s \in Statuses, h \in Headers : response' = [status |-> s, header |-> h]
        /\ pc' = "df_status"
        /\ UNCHANGED <<exc, outcome>>
     \/ /\ Raise("ConnectionError", "download_file", DfCatch("ConnectionError"))
        /\ UNCHANGED response
  /\ UNCHANGED <<fn, dfFrame, total_size, downloaded, done, percent, body, bar, handle,
                 uzFrame, zip_ref, orch, world, out, calls>>

\* line 33: response.raise_for_status()
DfRaiseForStatus ==
  /\ pc = "df_status"
  /\ IF RaisesForStatus(response.status)
     THEN Raise("HTTPError", "download_file", DfCatch("HTTPError"))
     ELSE pc' = "df_length" /\ UNCHANGED <<exc, outcome>>
  /\ UNCHANGED <<fn, dfFrame, dfLocals, bar, handle, uzFrame, zip_ref, orch, world, out,
                 calls>>

\* line 35: int(response.headers.get('content-length', 0)); a header that
\* is no number raises ValueError, which no clause of download_file catches.
DfLength ==
  /\ pc = "df_length"
  /\ IF response.header.kind = "garbage"
     THEN /\ Raise("ValueError", "download_file", DfCatch("ValueError"))
          /\ PopDfLocals
     ELSE /\ total_size' = response.header.val
          /\ pc' = "df_open"
          /\ UNCHANGED <<exc, outcome, response, downloaded, done, percent, body>>
  /\ UNCHANGED <<fn, dfFrame, bar, handle, uzFrame, zip_ref, orch, world, out, calls>>

\* line 37: open(filename, 'wb') creates or truncates the file, or fails
\* (always for the empty name) with an OSError no clause here catches.
DfOpen ==
  /\ pc = "df_open"
  /\ \/ /\ filename # <<>>
        /\ fs' = WriteFile(filename, <<>>)
        /\ handle' = "open"
        /\ pc' = "df_write"
        /\ UNCHANGED <<exc, outcome, dfLocals>>
     \/ /\ Raise("OSError", "download_file", DfCatch("OSError"))
        /\ PopDfLocals
        /\ UNCHANGED <<fs, handle>>
  /\ UNCHANGED <<fn, dfFrame, bar, uzFrame, zip_ref, orch, dest, fs0, out, calls>>

\* lines 38-40: the whole body in one write.  Leaving the with block
\* closes f, on the normal path and on an exception alike.
DfWriteContent ==
  /\ pc = "df_write"
  /\ total_size = 0 \/ ~show_progress
  /\ \/ \E b \in Bodies :
          \/ /\ body' = b
             /\ fs' = WriteFile(filename, fs[filename] \o b)
             /\ out' = Append(out, Line("download_file", "Downloaded"))
             /\ pc' = "df_return"
             /\ UNCHANGED <<exc, outcome, response, total_size, downloaded, done,
                            percent>>
          \/ /\ \E k \in 0..(Len(b) - 1) :
                  fs' = WriteFile(filename, fs[filename] \o SubSeq(b, 1, k))
             /\ Raise("OSError", "download_file", DfCatch("OSError"))
             /\ PopDfLocals
             /\ UNCHANGED out
     \/ /\ Raise("ConnectionError", "download_file", DfCatch("ConnectionError"))
        /\ UNCHANGED <<fs, out, dfLocals>>
  /\ handle' = "closed"
  /\ UNCHANGED <<fn, dfFrame, bar, uzFrame, zip_ref, orch, dest, fs0, calls>>

\* lines 41-43: the chunked path starts.
DfStartChunks ==
  /\ pc = "df_write"
  /\ ~(total_size = 0 \/ ~show_progress)
  /\ downloaded' = 0
  /\ pc' = "df_iter"
  /\ UNCHANGED <<fn, dfFrame, response, total_size, done, percent, body, bar, handle,
                 uzFrame, zip_ref, orch, world, out, exc, outcome, calls>>

\* lines 45-53: one iteration: the next chunk arrives, is counted, written
\* and the progress line is redrawn.
DfChunk ==
  /\ pc = "df_iter"
  /\ \E chunk \in Chunks :
       /\ Len(body) + Len(chunk) <= MaxBody
       /\ \/ /\ body' = body \o chunk
             /\ downloaded' = downloaded + Len(chunk)
             /\ fs' = WriteFile(filename, fs[filename] \o chunk)
             /\ IF show_progress
                THEN /\ done' = ComputeDone(downloaded', total_size)
                     /\ percent' = ComputePercent(downloaded', total_size)
                     /\ bar' = RenderBar(done')
                ELSE UNCHANGED <<done, percent, bar>>
             /\ UNCHANGED <<pc, exc, outcome, handle, response, total_size>>
          \/ /\ \E k \in 0..(Len(chunk) - 1) :
                  fs' = WriteFile(filename, fs[filename] \o SubSeq(chunk, 1, k))
             /\ Raise("OSError", "download_file", DfCatch("OSError"))
             /\ handle' = "closed"
             /\ PopDfLocals
             /\ UNCHANGED bar
  /\ UNCHANGED <<fn, dfFrame, uzFrame, zip_ref, orch, dest, fs0, out, calls>>

\* DfChunkFail with f opened outside a with block: nothing closes it.
DfChunkFailLeak ==
  /\ pc = "df_iter"
  /\ Raise("ConnectionError", "download_file", DfCatch("ConnectionError"))
  /\ UNCHANGED <<fn, dfFrame, dfLocals, bar, handle, uzFrame, zip_ref, orch, world, out,
                 calls>>

\* line 45: the stream breaks while the next chunk is read.
DfChunkFail ==
  /\ pc = "df_iter"
  /\ Raise("ConnectionError", "download_file", DfCatch("ConnectionError"))
  /\ handle' = "closed"
  /\ UNCHANGED <<fn, dfFrame, dfLocals, bar, uzFrame, zip_ref, orch, world, out, calls>>

\* lines 55-57: the stream is exhausted; newline, completion message, and
\* the with block closes f.
DfChunksDone ==
  /\ pc = "df_iter"
  /\ out' = IF show_progress
            THEN out \o <<Line("download_file", "newline"),
                          Line("download_file", "Download complete")>>
            ELSE Append(out, Line("download_file", "Download complete"))
  /\ handle' = "closed"
  /\ pc' = "df_return"
  /\ UNCHANGED <<fn, dfFrame, dfLocals, bar, uzFrame, zip_ref, orch, world, exc, outcome,
                 calls>>

\* line 59: return filename
DfReturn ==
  /\ pc = "df_return"
  /\ IF fn = "download_file"
     THEN Return(<<filename>>) /\ UNCHANGED orch
     ELSE /\ orch' = [orch EXCEPT !.downloaded_file = filename]
          /\ pc' = "dae_unzip"
          /\ UNCHANGED outcome
  /\ PopDfLocals
  /\ UNCHANGED <<fn, dfFrame, bar, handle, uzFrame, zip_ref, world, out, exc, calls>>

\* DfExcept with the print left out.
DfExceptSilent ==
  /\ pc = "df_except"
  /\ Raise(exc.kind, exc.origin, Unwind("download_file"))
  /\ PopDfLocals
  /\ UNCHANGED <<fn, dfFrame, bar, handle, uzFrame, zip_ref, orch, world, calls, out>>

\* lines 61-63: except RequestException: print, raise.
DfExcept ==
  /\ pc = "df_except"
  /\ out' = Append(out, Line("download_file", "Error downloading file"))
  /\ Raise(exc.kind, exc.origin, Unwind("download_file"))
  /\ PopDfLocals
  /\ UNCHANGED <<fn, dfFrame, bar, handle, uzFrame, zip_ref, orch, world, calls>>


(***************************************************************************)
(* unzip_file                                                              *)
(***************************************************************************)
\* UzExists with the existence check left out.
UzExistsUnchecked ==
  /\ pc = "uz_exists"
  /\ out' = Append(out, Line("unzip_file", "Extracting"))
  /\ pc' = "uz_open"
  /\ UNCHANGED <<fn, dfFrame, dfLocals, bar, handle, uzFrame, zip_ref, orch, world, calls,
                 exc, outcome>>

\* lines 81-84: the existence check, outside the try block, then the
\* banner.
UzExists ==
  /\ pc = "uz_exists"
  /\ IF ~Exists(zip_path)
     THEN /\ Raise("FileNotFoundError", "unzip_file", Unwind("unzip_file"))
          /\ UNCHANGED out
     ELSE /\ out' = Append(out, Line("unzip_file", "Extracting"))
          /\ pc' = "uz_open"
          /\ UNCHANGED <<exc, outcome>>
  /\ UNCHANGED <<fn, dfFrame, dfLocals, bar, handle, uzFrame, zip_ref, orch, world, calls>>

\* line 87: zipfile.ZipFile(zip_path, 'r') opens the archive, rejects it
\* as no zip file, or cannot read it.
UzOpen ==
  /\ pc = "uz_open"
  /\ \/ /\ zip_ref' = "open"
        /\ pc' = "uz_extract"
        /\ UNCHANGED <<exc, outcome>>
     \/ /\ Raise("BadZipFile", "unzip_file", UzCatch("BadZipFile"))
        /\ UNCHANGED zip_ref
     \/ /\ Raise("OSError", "unzip_file", UzCatch("OSError"))
        /\ UNCHANGED zip_ref
  /\ UNCHANGED <<fn, dfFrame, dfLocals, bar, handle, uzFrame, orch, world, out, calls>>

\* line 88: extractall writes the entries in order; it may stop part way
\* on a corrupt entry or on a file-system error, and what it wrote stays.
\* Leaving the with block closes the archive.
UzExtract ==
  /\ pc = "uz_extract"
  /\ \/ /\ dest' = dest \cup {Entries[i] : i \in 1..Len(Entries)}
        /\ pc' = "uz_return"
        /\ UNCHANGED <<exc, outcome>>
     \/ /\ \E k \in 0..(Len(Entries) - 1) : dest' = dest \cup {Entries[i] : i \in 1..k}
        /\ \/ Raise("BadZipFile", "unzip_file", UzCatch("BadZipFile"))
           \/ Raise("OSError", "unzip_file", UzCatch("OSError"))
  /\ zip_ref' = "closed"
  /\ UNCHANGED <<fn, dfFrame, dfLocals, bar, handle, uzFrame, orch, fs, fs0, out, calls>>

\* lines 90-91: print, return extract_to.
UzReturn ==
  /\ pc = "uz_return"
  /\ out' = Append(out, Line("unzip_file", "Extraction complete"))
  /\ IF fn = "unzip_file"
     THEN Return(<<extract_to>>) /\ UNCHANGED orch
     ELSE /\ orch' = [orch EXCEPT !.extract_dir = extract_to]
          /\ pc' = IF fn = "extract_from_location" THEN "efl_cleanup" ELSE "dae_cleanup"
          /\ UNCHANGED outcome
  /\ UNCHANGED <<fn, dfFrame, dfLocals, bar, handle, uzFrame, zip_ref, world, exc, calls>>

\* lines 93-95: except BadZipFile: print, raise.
UzExcept ==
  /\ pc = "uz_except"
  /\ out' = Append(out, Line("unzip_file", "Error: Invalid zip file"))
  /\ Raise(exc.kind, exc.origin, Unwind("unzip_file"))
  /\ UNCHANGED <<fn, dfFrame, dfLocals, bar, handle, uzFrame, zip_ref, orch, world, calls>>

(***************************************************************************)
(* extract_from_location                                                   *)
(***************************************************************************)
\* line 115: extract_dir = unzip_file(zip_path, extract_to)
EflUnzip ==
  /\ pc = "efl_unzip"
  /\ zip_path' = orch.zip_path
  /\ extract_to' = orch.extract_to
  /\ calls' = Append(calls, "unzip_file")
  /\ pc' = "uz_exists"
  /\ UNCHANGED <<fn, dfFrame, dfLocals, bar, handle, zip_ref, orch, world, out, exc,
                 outcome>>

\* os.remove(path), called from function `by`: the file goes, or the call
\* fails (no permission, file already gone) and the disk stays as it was.
OsRemove(path, by, handler, next) ==
  /\ calls' = Append(calls, "os.remove")
  /\ \/ /\ Exists(path)
        /\ fs' = RemoveFile(path)
        /\ out' = Append(out, Line(by, "Cleaned up"))
        /\ pc' = next
        /\ UNCHANGED <<exc, outcome>>
     \/ /\ Raise("OSError", by, handler)
        /\ UNCHANGED <<fs, out>>

\* lines 118-120: if cleanup: os.remove(zip_path); print.
EflCleanup ==
  /\ pc = "efl_cleanup"
  /\ IF orch.cleanup
     THEN OsRemove(orch.zip_path, "extract_from_location", "efl_except", "efl_return")
     ELSE pc' = "efl_return" /\ UNCHANGED <<fs, out, exc, outcome, calls>>
  /\ UNCHANGED <<fn, dfFrame, dfLocals, bar, handle, uzFrame, zip_ref, orch, dest, fs0>>

\* line 122: return extract_dir
EflReturn ==
  /\ pc = "efl_return"
  /\ Return(<<orch.extract_dir>>)
  /\ UNCHANGED <<fn, dfFrame, dfLocals, bar, handle, uzFrame, zip_ref, orch, world, out,
                 exc, calls>>

\* lines 124-126: except Exception: print, raise.
EflExcept ==
  /\ pc = "efl_except"
  /\ out' = Append(out, Line("extract_from_location", "Error in extract_from_location"))
  /\ Raise(exc.kind, exc.origin, "raised")
  /\ UNCHANGED <<fn, dfFrame, dfLocals, bar, handle, uzFrame, zip_ref, orch, world, calls>>

(***************************************************************************)
(* download_and_extract                                                    *)
(***************************************************************************)
\* line 148: downloaded_file = download_file(url, filename, show_progress)
DaeDownload ==
  /\ pc = "dae_download"
  /\ url' = orch.url
  /\ filename' = orch.filename
  /\ show_progress' = orch.show_progress
  /\ calls' = Append(calls, "download_file")
  /\ pc' = "df_name"
  /\ UNCHANGED <<fn, dfLocals, bar, handle, uzFrame, zip_ref, orch, world, out, exc,
                 outcome>>

\* line 151: extract_dir = unzip_file(downloaded_file, extract_to)
DaeUnzip ==
  /\ pc = "dae_unzip"
  /\ zip_path' = orch.downloaded_file
  /\ extract_to' = orch.extract_to
  /\ calls' = Append(calls, "unzip_file")
  /\ pc' = "uz_exists"
  /\ UNCHANGED <<fn, dfFrame, dfLocals, bar, handle, zip_ref, orch, world, out, exc,
                 outcome>>

\* DaeCleanup with the cleanup flag ignored.
DaeCleanupAlways ==
  /\ pc = "dae_cleanup"
  /\ OsRemove(orch.downloaded_file, "download_and_extract", "dae_except", "dae_return")
  /\ UNCHANGED <<fn, dfFrame, dfLocals, bar, handle, uzFrame, zip_ref, orch, dest, fs0>>

\* lines 154-156: if cleanup: os.remove(downloaded_file); print.
DaeCleanup ==
  /\ pc = "dae_cleanup"
  /\ IF orch.cleanup
     THEN OsRemove(orch.downloaded_file, "download_and_extract", "dae_except",
                   "dae_return")
     ELSE pc' = "dae_return" /\ UNCHANGED <<fs, out, exc, outcome, calls>>
  /\ UNCHANGED <<fn, dfFrame, dfLocals, bar, handle, uzFrame, zip_ref, orch, dest, fs0>>

\* line 158: return downloaded_file, extract_dir
DaeReturn ==
  /\ pc = "dae_return"
  /\ Return(<<orch.downloaded_file, orch.extract_dir>>)
  /\ UNCHANGED <<fn, dfFrame, dfLocals, bar, handle, uzFrame, zip_ref, orch, world, out,
                 exc, calls>>

\* lines 160-162: except Exception: print, raise.
DaeExcept ==
  /\ pc = "dae_except"
  /\ out' = Append(out, Line("download_and_extract", "Error in download_and_extract"))
  /\ Raise(exc.kind, exc.origin, "raised")
  /\ UNCHANGED <<fn, dfFrame, dfLocals, bar, handle, uzFrame, zip_ref, orch, world, calls>>

(***************************************************************************)
(* The specification: one call, run to its end.                            *)
(***************************************************************************)
Next ==
  \/ CallDownloadFile \/ CallUnzipFile \/ CallExtractFromLocation
  \/ CallDownloadAndExtract
  \/ DfName \/ DfGet \/ DfRaiseForStatus \/ DfLength \/ DfOpen \/ DfWriteContent
  \/ DfStartChunks \/ DfChunk \/ DfChunkFail \/ DfChunksDone \/ DfReturn \/ DfExcept
  \/ UzExists \/ UzOpen \/ UzExtract \/ UzReturn \/ UzExcept
  \/ EflUnzip \/ EflCleanup \/ EflReturn \/ EflExcept
  \/ DaeDownload \/ DaeUnzip \/ DaeCleanup \/ DaeReturn \/ DaeExcept

Spec == Init /\ [][Next]_vars

TypeOK ==
  /\ handle \in {"none", "open", "closed"}
  /\ zip_ref \in {"none", "open", "closed"}
  /\ outcome.kind \in {"none", "returned", "raised"}

(***************************************************************************)
(* Vocabulary of the properties.                                           *)
(***************************************************************************)
Failed == exc.kind # "none"
Terminated == pc \in {"returned", "raised"}
InHandler == pc \in {"df_except", "uz_except", "efl_except", "dae_except"}
Orchestrators == {"extract_from_location", "download_and_extract"}
Pipeline == <<"download_file", "unzip_file", "os.remove">>
AllEntries == {Entries[i] : i \in 1..Len(Entries)}

IsPrefix(a, b) == Len(a) <= Len(b) /\ SubSeq(b, 1, Len(a)) = a
Invoked(stage) == \E i \in 1..Len(calls) : calls[i] = stage
ErrorMessages == {"Error downloading file", "Error: Invalid zip file",
                  "Error in extract_from_location", "Error in download_and_extract"}
LoggedBy(f) == \E i \in 1..Len(out) : out[i].by = f /\ out[i].msg \in ErrorMessages
\* The archive an orchestrator works on.
Archive == IF fn = "extract_from_location" THEN orch.zip_path ELSE filename
\* A run stops only where the caller has its answer, and a failure never
\* ends as a return.
EndsWithCaller ==
  /\ ~(ENABLED Next) => Terminated
  /\ Failed => (InHandler \/ pc = "raised") /\ outcome.kind # "returned"
  /\ pc = "raised" => Failed /\ outcome.kind = "raised" /\ outcome.exc = exc.kind
                             /\ outcome.value = <<>>
  /\ pc = "returned" => ~Failed /\ outcome.kind = "returned"

(***************************************************************************)
(* C1: in download_and_extract the stages run in the order download,       *)
(* extract, cleanup, each at most once and only after the one before it    *)
(* succeeded; a failure in download_file leaves unzip_file and os.remove   *)
(* uninvoked, a failure in unzip_file leaves os.remove uninvoked; a        *)
(* failing run ends with the exception at the caller and no pair returned, *)
(* and once a stage has failed no stage is invoked again.                  *)
(***************************************************************************)
C1_StagesNow ==
  fn = "download_and_extract" =>
    /\ IsPrefix(calls, Pipeline)
    /\ Invoked("unzip_file") => orch.downloaded_file # None
    /\ Invoked("os.remove") => orch.extract_dir # None /\ orch.cleanup
    /\ Failed /\ exc.origin = "download_file" => calls = <<"download_file">>
    /\ Failed /\ exc.origin = "unzip_file" => calls = <<"download_file", "unzip_file">>
    /\ EndsWithCaller
    /\ outcome.kind = "returned" =>
         outcome.value = <<orch.downloaded_file, orch.extract_dir>>

C1_NoRecovery ==
  fn = "download_and_extract" /\ Failed =>
    calls' = calls /\ exc' = exc /\ outcome'.kind # "returned"

\* C1: the stage order holds in every state, and no step of a failed run
\* invokes a stage, drops the exception or returns.
C1_StagedPipeline == [](C1_StagesNow) /\ [][C1_NoRecovery]_vars

C1_Witness ==
  /\ fn = "download_and_extract" /\ pc = "raised"
  /\ exc.origin = "unzip_file" /\ orch.cleanup
  /\ calls = <<"download_file", "unzip_file">>

(***************************************************************************)
(* C2: in extract_from_location and download_and_extract the archive is    *)
(* deleted only when cleanup is true and extraction has succeeded: with    *)
(* cleanup false nothing is ever removed and a downloaded archive stays;   *)
(* with cleanup true a run that returns leaves the archive absent; when    *)
(* extraction fails the archive is as it was, whatever the flag; when the  *)
(* deletion fails the error reaches the caller, the archive stays and the  *)
(* extracted entries stay.                                                 *)
(***************************************************************************)
C2_CleanupOnlyAfterExtraction ==
  fn \in Orchestrators =>
    /\ Invoked("os.remove") =>
         orch.cleanup /\ orch.extract_dir # None /\ dest = AllEntries
    /\ (\E p \in DOMAIN fs0 : ~Exists(p)) \/ (handle # "none" /\ ~Exists(filename)) =>
         /\ orch.cleanup /\ orch.extract_dir # None
         /\ \A i \in 1..Len(out) : out[i].msg = "Cleaned up" => out[i].by = fn
    /\ ~orch.cleanup =>
         /\ DOMAIN fs0 \subseteq DOMAIN fs
         /\ handle # "none" => Exists(filename)
    /\ orch.cleanup /\ pc = "returned" => ~Exists(Archive)
    /\ Failed /\ exc.origin = "unzip_file" =>
         /\ DOMAIN fs0 \subseteq DOMAIN fs
         /\ exc.kind # "FileNotFoundError" => Exists(zip_path)
         /\ ~Invoked("os.remove")
    /\ Failed /\ exc.origin \in Orchestrators =>
         /\ Exists(Archive) /\ dest = AllEntries
         /\ pc \in {"efl_except", "dae_except", "raised"}
         /\ pc = "raised" => outcome.kind = "raised" /\ outcome.exc = "OSError"

C2_Witness ==
  /\ fn = "download_and_extract" /\ pc = "returned" /\ orch.cleanup
  /\ ~Exists(filename) /\ dest = AllEntries

C4_NotFoundBeforeArchiveIO ==
  /\ pc \in {"uz_open", "uz_extract", "uz_return"} => Exists(zip_path)
  /\ zip_ref # "none" => zip_path \in DOMAIN fs0 \/ handle = "closed"
  /\ Failed /\ exc.kind = "FileNotFoundError" =>
       /\ exc.origin = "unzip_file" /\ ~Exists(zip_path)
       /\ zip_ref = "none" /\ dest = {} /\ fs = fs0
       /\ ~Invoked("os.remove")
       /\ \A i \in 1..Len(out) : out[i].msg \notin {"Extracting", "Cleaned up"}
       /\ pc = "raised" => outcome.kind = "raised" /\ outcome.exc = "FileNotFoundError"

C4_Witness ==
  /\ fn = "extract_from_location" /\ orch.cleanup /\ pc = "raised"
  /\ exc.kind = "FileNotFoundError" /\ zip_ref = "none"

(***************************************************************************)
(* C5, as stated: every failure that reaches the caller was logged by the  *)
(* function in which it occurred.                                          *)
(***************************************************************************)
C5_LoggedWhereItOccurs == pc = "raised" => LoggedBy(exc.origin)

(***************************************************************************)
(* C5, amended: no failure is swallowed: every failure is re-raised up to  *)
(* the caller of the public function.  The function in which it occurs     *)
(* logs it exactly when it has a clause for its kind: RequestException in  *)
(* download_file, BadZipFile in unzip_file, any exception in the two       *)
(* orchestrators; other kinds leave download_file and unzip_file           *)
(* unlogged.  An orchestrator logs every failure that passes through it.   *)
(***************************************************************************)
C5_Catches(f, k) ==
  \/ f = "download_file" /\ k \in {"HTTPError", "ConnectionError"}
  \/ f = "unzip_file" /\ k = "BadZipFile"
  \/ f \in Orchestrators

\* C5, amended: every failure ends at the caller; the function where it
\* occurred logged it exactly when it has a clause for its kind.
C5_NeverSwallowed ==
  /\ EndsWithCaller
  /\ pc = "raised" =>
       /\ LoggedBy(exc.origin) <=> C5_Catches(exc.origin, exc.kind)
       /\ fn \in Orchestrators => LoggedBy(fn)

C5_Witness ==
  /\ pc = "raised" /\ fn = "download_file" /\ exc.kind = "OSError"
  /\ ~LoggedBy("download_file")

(***************************************************************************)
(* C6: for T > 0 and 0 <= d <= T the progress line has fill length         *)
(* floor(50*d/T) and percent floor(100*d/T); at d = T they are 50 and 100; *)
(* neither decreases from one chunk to the next.                           *)
(***************************************************************************)
C6_InRange == pc = "df_iter" /\ total_size > 0 /\ downloaded <= total_size

C6_FloorNow ==
  C6_InRange /\ bar.shown =>
    /\ done * total_size <= 50 * downloaded
    /\ 50 * downloaded < (done + 1) * total_size
    /\ percent * total_size <= 100 * downloaded
    /\ 100 * downloaded < (percent + 1) * total_size
    /\ bar.fill = done
    /\ downloaded = total_size => done = 50 /\ percent = 100 /\ bar.fill = 50

C6_Monotone ==
  pc = "df_iter" /\ pc' = "df_iter" /\ total_size > 0 =>
    done' >= done /\ percent' >= percent /\ bar'.fill >= bar.fill

C7_LastSlash(u) ==
  LET S == {i \in 1..Len(u) : u[i] = "/"}
  IN IF S = {} THEN 0 ELSE CHOOSE i \in S : \A j \in S : j <= i

C7_AfterLastSlash(u) == SubSeq(u, C7_LastSlash(u) + 1, Len(u))

C7_Derive ==
  pc = "df_name" =>
    filename' = IF filename = None THEN C7_AfterLastSlash(url) ELSE filename

C7_Keep ==
  pc \notin {"idle", "dae_download", "df_name"} => filename' = filename /\ url' = url

C7_UsedNow ==
  /\ handle = "open" => Exists(filename)
  /\ fn = "download_file" /\ pc = "returned" => outcome.value = <<filename>>
  /\ fn = "download_and_extract" /\ orch.downloaded_file # None =>
       /\ orch.downloaded_file = filename
       /\ filename = IF orch.filename = None THEN C7_AfterLastSlash(orch.url)
                     ELSE orch.filename

\* C7: the name is derived as the text after the last '/' (or kept as
\* given), never changes afterwards, and is the one opened and returned.
C7_FilenameDerivation == [](C7_UsedNow) /\ [][C7_Derive /\ C7_Keep]_vars

C7_Witness ==
  /\ fn = "download_file" /\ pc = "returned"
  /\ url = <<"/", "a">> /\ outcome.value = << <<"a">> >>

(***************************************************************************)
(* C8: whenever progress is rendered against a content-length T > 0, the   *)
(* bar is exactly 50 characters wide, with 0 <= done <= 50 and percent at  *)
(* most 100, whatever the server delivers.                                 *)
(***************************************************************************)
C8_BarIsFiftyWide ==
  pc = "df_iter" /\ total_size > 0 /\ bar.shown =>
    /\ bar.fill + bar.blank = 50
    /\ 0 <= done /\ done <= 50
    /\ percent <= 100

(***************************************************************************)
(* C9: the file object download_file opens is open only inside the with    *)
(* block: it is closed when download_file returns and when an exception    *)
(* leaves the block, on every path; a failure after the open leaves the    *)
(* file on disk with what was written so far, nothing rolled back.         *)
(***************************************************************************)
C9_HandleClosedOnExit ==
  /\ handle = "open" => pc \in {"df_write", "df_iter"} /\ ~Failed
  /\ pc \in {"df_write", "df_iter"} => handle = "open"
  /\ pc \in {"df_return", "dae_unzip"} => handle = "closed"
  /\ Terminated /\ fn = "download_file" /\ outcome.kind = "returned" => handle = "closed"
  /\ Failed /\ exc.origin = "download_file" =>
       /\ handle \in {"none", "closed"}
       /\ handle = "closed" =>
            /\ Exists(filename)
            /\ \A i \in 1..Len(fs[filename]) : fs[filename][i] \in Bytes
            /\ pc = "df_except" => IsPrefix(fs[filename], body)
       /\ handle = "none" => fs = fs0

C9_Witness ==
  /\ fn = "download_file" /\ pc = "raised" /\ exc.kind = "ConnectionError"
  /\ handle = "closed" /\ Exists(filename) /\ Len(fs[filename]) > 0

(***************************************************************************)
(* C10: download_file writes chunk by chunk exactly when show_progress is  *)
(* true and the content-length is greater than 0, and otherwise in one     *)
(* write; either way a successful call leaves exactly the body in the      *)
(* file, and the running count equals the bytes written so far.            *)
(***************************************************************************)
C10_ChunkedIffPositiveLength ==
  /\ pc = "df_iter" => show_progress /\ total_size > 0
  /\ pc = "df_iter" => downloaded = Len(fs[filename]) /\ fs[filename] = body
  /\ pc = "df_return" => fs[filename] = body


====
